---- MODULE Spec2Model ----
(***************************************************************************)
(* A model of the crypto price aggregator: the three source clients, the   *)
(* ingestion coordinator with its single multi-row upsert, the price       *)
(* store, and the cache-backed read handler GET /prices/{asset}.           *)
(*                                                                         *)
(* Strings on which the code does case conversion (asset symbols) are      *)
(* sequences of one-character strings, so that str.upper and str.lower are *)
(* computed.  Decimals are a digit sequence and an exponent (the value is  *)
(* digits * 10^exp), so that Decimal.normalize, the JSON encoding of a     *)
(* Decimal and its parsing back are computed as well.  Prices are          *)
(* unsigned in this model.                                                 *)
(***************************************************************************)
EXTENDS Integers, Sequences, FiniteSets, TLC

VARIABLES
    order,      \* the iteration order of the set CLIENTS_TO_CALL in this process
    store,      \* the crypto_price table: a sequence of rows, in stored order
    nextId,     \* the next value of the table's id sequence
    cache,      \* Redis: cache key -> entry, a missing key is absent from the domain
    now,        \* the clock, in seconds
    ticks,      \* how many times the clock has advanced
    ing,        \* per ingest run: its position and local variables
    nruns,      \* how many ingest runs have been started
    commits,    \* history: one record per committed upsert
    rd,         \* per read handler: its position, request and local variables
    prev,       \* history: the read a handler completed before repeating its request
    fills,      \* how many cache entries have been written (identifies an entry)
    task        \* the worker's ingestion task: its position, arguments and retries

vars ==
    <<order, store, nextId, cache, now, ticks, ing, nruns, commits, rd, prev, fills, task>>

----------------------------------------------------------------------------
(* Bounds of the model *)

MaxRuns == 2        \* ingest runs started in one behaviour
MaxTicks == 2       \* clock advances in one behaviour
MaxIngestClock == 1 \* the latest clock value when ingestion is checked alone

----------------------------------------------------------------------------
(* Strings with case *)

LETTERS ==
    << <<"a", "A">>, <<"b", "B">>, <<"c", "C">>, <<"d", "D">>, <<"e", "E">>,
       <<"f", "F">>, <<"h", "H">>, <<"o", "O">>, <<"r", "R">>, <<"s", "S">>,
       <<"t", "T">> >>

upper_char(c) ==
    IF \E i \in DOMAIN LETTERS : LETTERS[i][1] = c
    THEN LETTERS[CHOOSE i \in DOMAIN LETTERS : LETTERS[i][1] = c][2]
    ELSE c

lower_char(c) ==
    IF \E i \in DOMAIN LETTERS : LETTERS[i][2] = c
    THEN LETTERS[CHOOSE i \in DOMAIN LETTERS : LETTERS[i][2] = c][1]
    ELSE c

upper(s) == [i \in DOMAIN s |-> upper_char(s[i])]

lower(s) == [i \in DOMAIN s |-> lower_char(s[i])]

btc == <<"b", "t", "c">>
eth == <<"e", "t", "h">>
foo == <<"f", "o", "o">>
BTC == <<"B", "T", "C">>
ETH == <<"E", "T", "H">>

----------------------------------------------------------------------------
(* Python dicts: insertion-ordered sequences of <<key, value>> pairs *)

dict_has(d, k) == \E i \in DOMAIN d : d[i][1] = k

dict_get(d, k) == d[CHOOSE i \in DOMAIN d : d[i][1] = k][2]

dict_set(d, k, v) ==
    IF dict_has(d, k)
    THEN [i \in DOMAIN d |-> IF d[i][1] = k THEN <<k, v>> ELSE d[i]]
    ELSE Append(d, <<k, v>>)

dict_pop(d, k) ==
    LET i == CHOOSE j \in DOMAIN d : d[j][1] = k
    IN  SubSeq(d, 1, i - 1) \o SubSeq(d, i + 1, Len(d))

dict_values(d) == [i \in DOMAIN d |-> d[i][2]]

----------------------------------------------------------------------------
(* Decimals *)

\* decimal.Decimal as its tuple (sign, digits, exponent): sign 0 is plus
SignedDec(sign, digits, exp) == [sign |-> sign, digits |-> digits, exp |-> exp]

Dec(digits, exp) == SignedDec(0, digits, exp)

RECURSIVE normalize(_)
normalize(d) ==
    IF Len(d.digits) > 1 /\ d.digits[Len(d.digits)] = 0
    THEN normalize(SignedDec(d.sign, SubSeq(d.digits, 1, Len(d.digits) - 1), d.exp + 1))
    ELSE IF d.digits = <<0>> THEN SignedDec(d.sign, <<0>>, 0) ELSE d

process_bind_param(value) == normalize(value)

process_result_value(value) == normalize(value)

----------------------------------------------------------------------------
(* Results of calls that may raise *)

NoError == [type |-> "none", arg |-> <<>>]

Ok(v, calls) == [ok |-> TRUE, value |-> v, error |-> NoError, calls |-> calls]

Raise(type, arg, calls) ==
    [ok |-> FALSE, value |-> <<>>, error |-> [type |-> type, arg |-> arg], calls |-> calls]

----------------------------------------------------------------------------
(* The asset mapper *)

COINGECKO_COIN_IDS == << <<btc, "bitcoin">>, <<eth, "ethereum">> >>

COINBASE_COIN_IDS == << <<btc, "BTC">>, <<eth, "ETH">> >>

BINANCE_COIN_IDS == << <<btc, "BTC">>, <<eth, "ETH">> >>

EmptyMapping == [reverse_mapping |-> <<>>, asset_ids |-> <<>>, invalid_assets |-> <<>>]

\* The loop of _map_assets from its i-th asset on.  id_mapping[asset.lower()]
\* is a plain dict subscript: a symbol that is not a key raises KeyError there.
RECURSIVE map_assets_from(_, _, _, _)
map_assets_from(assets, id_mapping, i, acc) ==
    IF i > Len(assets) THEN Ok(acc, 0)
    ELSE IF ~dict_has(id_mapping, lower(assets[i]))
         THEN Raise("KeyError", <<lower(assets[i])>>, 0)
         ELSE LET asset_id == dict_get(id_mapping, lower(assets[i]))
              IN  map_assets_from(assets, id_mapping, i + 1,
                    [reverse_mapping |->
                         dict_set(acc.reverse_mapping, asset_id, lower(assets[i])),
                     asset_ids |-> Append(acc.asset_ids, asset_id),
                     invalid_assets |->
                         IF asset_id = "" THEN Append(acc.invalid_assets, assets[i])
                         ELSE acc.invalid_assets])

map_assets(assets, id_mapping) == map_assets_from(assets, id_mapping, 1, EmptyMapping)

----------------------------------------------------------------------------
(* The external sources.  A source answers a request in one of a few ways  *)
(* (beh) and quotes every asset at the price p.                            *)

Quote(asset, price, source, fetched_at) ==
    [asset |-> asset, quote |-> "USD", price |-> price, source |-> source,
     fetched_at |-> fetched_at]

RECURSIVE dedup(_)
dedup(s) ==
    IF s = <<>> THEN <<>>
    ELSE LET r == dedup(SubSeq(s, 1, Len(s) - 1))
         IN  IF \E i \in DOMAIN r : r[i] = s[Len(s)] THEN r ELSE Append(r, s[Len(s)])

\* The JSON object CoinGecko answers with: id -> {"usd": price}.
coingecko_response(asset_ids, beh, p) ==
    LET ids == dedup(asset_ids)
        all == [i \in DOMAIN ids |-> <<ids[i], [usd |-> p]>>]
    IN  CASE beh = "full" -> all
          [] beh = "incomplete" -> SubSeq(all, 1, Len(all) - 1)
          [] beh = "extra" -> Append(all, <<"dogecoin", [usd |-> p]>>)

\* The JSON array Binance answers with: every ticker of the exchange.
binance_response(beh, p) ==
    LET all == << [symbol |-> <<"BTC", "USDT">>, price |-> p],
                  [symbol |-> <<"ETH", "USDT">>, price |-> p],
                  [symbol |-> <<"FBR", "USDT">>, price |-> p] >>
    IN  CASE beh = "full" -> all
          [] beh = "incomplete" -> SubSeq(all, 1, 1) \o SubSeq(all, 3, 3)
          [] beh = "extra" -> all

----------------------------------------------------------------------------
(* The source clients *)

\* The list comprehension of CoinGeckoClient.get_prices from item i on.
RECURSIVE coingecko_results_from(_, _, _, _, _)
coingecko_results_from(items, i, copy, results, dt) ==
    IF i > Len(items)
    THEN IF copy # <<>> THEN Raise("RuntimeError", dict_values(copy), 1)
         ELSE Ok(results, 1)
    ELSE IF ~dict_has(copy, items[i][1])
         THEN Raise("KeyError", <<items[i][1]>>, 1)
         ELSE coingecko_results_from(items, i + 1, dict_pop(copy, items[i][1]),
                Append(results,
                       Quote(upper(dict_get(copy, items[i][1])), items[i][2].usd,
                             "coingecko", dt)),
                dt)

CoinGeckoClient_get_prices(assets, beh, p, clock) ==
    LET asset_mapping == map_assets(assets, COINGECKO_COIN_IDS)
    IN  IF ~asset_mapping.ok THEN asset_mapping
        ELSE IF asset_mapping.value.invalid_assets # <<>>
             THEN Raise("ValueError", asset_mapping.value.invalid_assets, 0)
        ELSE IF beh = "error" THEN Raise("RequestException", <<>>, 1)
        ELSE coingecko_results_from(
                 coingecko_response(asset_mapping.value.asset_ids, beh, p), 1,
                 asset_mapping.value.reverse_mapping, <<>>, clock)

\* A Coinbase quote that carries the symbol as it was requested
CoinbaseClient_get_price_as_given(asset, beh, p, clock) ==
    IF ~dict_has(COINBASE_COIN_IDS, asset)
    THEN Raise("ValueError", <<asset>>, 0)
    ELSE IF beh = "error" THEN Raise("RequestException", <<>>, 1)
    ELSE IF beh = "incomplete" THEN Raise("KeyError", <<"data">>, 1)
    ELSE Ok(Quote(asset, p, "coinbase", clock), 1)

\* CoinbaseClient._get_price: one asset, one network call.
CoinbaseClient_get_price(asset, beh, p, clock) ==
    IF ~dict_has(COINBASE_COIN_IDS, asset)
    THEN Raise("ValueError", <<asset>>, 0)
    ELSE IF beh = "error" THEN Raise("RequestException", <<>>, 1)
    ELSE IF beh = "incomplete" THEN Raise("KeyError", <<"data">>, 1)
    ELSE Ok(Quote(upper(asset), p, "coinbase", clock), 1)

\* The inner loop of BinanceClient.get_prices: the first key of the copy, in
\* dict order, whose ticker symbol is the one of p; 0 when there is none.
binance_match(copy, symbol) ==
    IF \E j \in DOMAIN copy : symbol = <<copy[j][1], "USDT">>
    THEN CHOOSE j \in DOMAIN copy :
            /\ symbol = <<copy[j][1], "USDT">>
            /\ \A k \in 1 .. (j - 1) : symbol # <<copy[k][1], "USDT">>
    ELSE 0

\* A scan that returns the quotes it found, whatever is left of the copy
RECURSIVE binance_scan_lenient(_, _, _, _, _)
binance_scan_lenient(response, i, copy, results, dt) ==
    IF i > Len(response) \/ copy = <<>> THEN Ok(results, 1)
    ELSE LET j == binance_match(copy, response[i].symbol)
         IN  IF j = 0 THEN binance_scan_lenient(response, i + 1, copy, results, dt)
             ELSE binance_scan_lenient(response, i + 1, dict_pop(copy, copy[j][1]),
                    Append(results,
                           Quote(upper(copy[j][2]), response[i].price, "binance", dt)),
                    dt)

\* The scan of BinanceClient.get_prices from ticker i on.
RECURSIVE binance_scan_from(_, _, _, _, _)
binance_scan_from(response, i, copy, results, dt) ==
    IF i > Len(response) \/ copy = <<>>
    THEN IF copy # <<>> THEN Raise("RuntimeError", dict_values(copy), 1)
         ELSE Ok(results, 1)
    ELSE LET j == binance_match(copy, response[i].symbol)
         IN  IF j = 0 THEN binance_scan_from(response, i + 1, copy, results, dt)
             ELSE binance_scan_from(response, i + 1, dict_pop(copy, copy[j][1]),
                    Append(results,
                           Quote(upper(copy[j][2]), response[i].price, "binance", dt)),
                    dt)

BinanceClient_get_prices(assets, beh, p, clock) ==
    IF beh = "error" THEN Raise("RequestException", <<>>, 1)
    ELSE LET asset_mapping == map_assets(assets, BINANCE_COIN_IDS)
         IN  IF ~asset_mapping.ok
             THEN [asset_mapping EXCEPT !.calls = 1]
             ELSE IF asset_mapping.value.invalid_assets # <<>>
                  THEN Raise("ValueError", asset_mapping.value.invalid_assets, 1)
             ELSE binance_scan_from(binance_response(beh, p), 1,
                      asset_mapping.value.reverse_mapping, <<>>, clock)

----------------------------------------------------------------------------
(* The price store *)

key_of(r) == <<r.asset, r.quote, r.source>>

\* One INSERT .. ON CONFLICT DO UPDATE may not touch the same row twice:
\* PostgreSQL rejects the statement when two of its rows share the key.
has_duplicate_keys(rows) ==
    \E i, j \in DOMAIN rows : i < j /\ key_of(rows[i]) = key_of(rows[j])

new_row(id, r) ==
    [id |-> id, asset |-> r.asset, quote |-> r.quote,
     price |-> process_bind_param(r.price), source |-> r.source,
     fetched_at |-> r.fetched_at]

\* The conflicting row deleted and the proposed one inserted in its place
RECURSIVE delete_then_insert(_, _, _, _)
delete_then_insert(table, rows, i, id) ==
    IF i > Len(rows) THEN table
    ELSE delete_then_insert(
            Append(SelectSeq(table, LAMBDA t : key_of(t) # key_of(rows[i])),
                   new_row(id, rows[i])),
            rows, i + 1, id + 1)

\* A plain INSERT into a table without the unique constraint
RECURSIVE insert_all(_, _, _, _)
insert_all(table, rows, i, id) ==
    IF i > Len(rows) THEN table
    ELSE insert_all(Append(table, new_row(id, rows[i])), rows, i + 1, id + 1)

\* The table emptied and the proposed rows inserted
truncate_then_insert(table, rows, i, id) == insert_all(<<>>, rows, i, id)

\* ON CONFLICT DO NOTHING: a row whose key is in the table is dropped
RECURSIVE on_conflict_do_nothing(_, _, _, _)
on_conflict_do_nothing(table, rows, i, id) ==
    IF i > Len(rows) THEN table
    ELSE IF \E k \in DOMAIN table : key_of(table[k]) = key_of(rows[i])
         THEN on_conflict_do_nothing(table, rows, i + 1, id + 1)
         ELSE on_conflict_do_nothing(Append(table, new_row(id, rows[i])),
                                     rows, i + 1, id + 1)

\* The statement's effect on the table from its i-th row on: insert, or on a
\* conflict on (asset, quote, source) set price and fetched_at to the
\* excluded row's.  Every proposed row draws an id from the sequence.
RECURSIVE on_conflict_do_update(_, _, _, _)
on_conflict_do_update(table, rows, i, id) ==
    IF i > Len(rows) THEN table
    ELSE IF \E k \in DOMAIN table : key_of(table[k]) = key_of(rows[i])
         THEN on_conflict_do_update(
                [k \in DOMAIN table |->
                    IF key_of(table[k]) = key_of(rows[i])
                    THEN [table[k] EXCEPT !.price = process_bind_param(rows[i].price),
                                          !.fetched_at = rows[i].fetched_at]
                    ELSE table[k]],
                rows, i + 1, id + 1)
         ELSE on_conflict_do_update(Append(table, new_row(id, rows[i])),
                                    rows, i + 1, id + 1)

assets_of(rows) == {rows[i].asset : i \in DOMAIN rows}

rows_of_asset(table, asset) == SelectSeq(table, LAMBDA r : r.asset = asset)

----------------------------------------------------------------------------
(* The ingestion coordinator *)

CLIENTS_TO_CALL == {"coingecko", "coinbase", "binance"}

\* The orders in which a loop over the set can visit its three clients
ClientOrders ==
    {o \in [1 .. 3 -> CLIENTS_TO_CALL] : {o[i] : i \in 1 .. 3} = CLIENTS_TO_CALL}

Runs == {"r1", "r2"}

Behaviours == {"full", "incomplete", "extra", "error"}

\* The prices the sources quote: 120 and 130.30
Feed == {Dec(<<1, 2, 0>>, 0), Dec(<<1, 3, 0, 3, 0>>, -2)}

\* The scheduler's list, the list of the module's __main__, and lists with an
\* unsupported and with a repeated symbol.
AssetLists == {<<BTC, ETH>>, <<btc, eth>>, <<btc>>, <<btc, foo>>, <<btc, btc>>}

IdleRun ==
    [pc |-> "idle", assets |-> <<>>, quoted |-> Dec(<<0>>, 0), k |-> 0, idx |-> 0,
     partial |-> <<>>, prices |-> <<>>, error |-> NoError, calls |-> 0]

\* A run that raised at its k-th client, the client's get_prices having
\* issued calls network calls before
Raised(error, k, calls) ==
    [IdleRun EXCEPT !.pc = "raised", !.error = error, !.k = k, !.calls = calls]

UNCHANGED_READS == UNCHANGED <<rd, prev, cache, fills, task>>

\* ingest_prices is called (lines 20-25); while it runs the sources quote p.
StartIngest(r, assets, p) ==
    /\ ing[r].pc \in {"idle", "done", "raised"}
    /\ nruns < MaxRuns
    /\ nruns' = nruns + 1
    /\ ing' = [ing EXCEPT ![r] = [IdleRun EXCEPT !.pc = "fetch", !.assets = assets,
                                                 !.quoted = p, !.k = 1]]
    /\ UNCHANGED <<order, store, nextId, now, ticks, commits>>
    /\ UNCHANGED_READS

AtClient(r, client) ==
    /\ ing[r].pc = "fetch"
    /\ ing[r].k \in DOMAIN order
    /\ order[ing[r].k] = client

AfterClientSwallowing(r, res) ==
    ing' = [ing EXCEPT ![r].prices = @ \o res.value, ![r].k = @ + 1]

\* The outcome of one client's get_prices in the loop of lines 26-32: its
\* quotes are appended, or its exception is logged and raised again.
AfterClient(r, res) ==
    IF res.ok
    THEN ing' = [ing EXCEPT ![r].prices = @ \o res.value, ![r].k = @ + 1]
    ELSE ing' = [ing EXCEPT ![r] = Raised(res.error, ing[r].k, res.calls)]

CallCoinGecko(r, beh) ==
    /\ AtClient(r, "coingecko")
    /\ AfterClient(r, CoinGeckoClient_get_prices(ing[r].assets, beh, ing[r].quoted, now))
    /\ UNCHANGED <<order, store, nextId, now, ticks, nruns, commits>>
    /\ UNCHANGED_READS

CallBinance(r, beh) ==
    /\ AtClient(r, "binance")
    /\ AfterClient(r, BinanceClient_get_prices(ing[r].assets, beh, ing[r].quoted, now))
    /\ UNCHANGED <<order, store, nextId, now, ticks, nruns, commits>>
    /\ UNCHANGED_READS

\* CoinbaseClient.get_prices asks for one asset after the other: one step of
\* its list comprehension, the clock may advance between two of them.
CallCoinbase(r, beh) ==
    /\ AtClient(r, "coinbase")
    /\ LET i == ing[r].idx + 1
           res == CoinbaseClient_get_price(ing[r].assets[i], beh, ing[r].quoted, now)
       IN  IF ~res.ok
           THEN ing' = [ing EXCEPT ![r] =
                           Raised(res.error, ing[r].k, ing[r].idx + res.calls)]
           ELSE IF i < Len(ing[r].assets)
           THEN ing' = [ing EXCEPT ![r].idx = i, ![r].partial = Append(@, res.value)]
           ELSE ing' = [ing EXCEPT ![r].idx = 0, ![r].partial = <<>>,
                                   ![r].prices = @ \o Append(ing[r].partial, res.value),
                                   ![r].k = @ + 1]
    /\ UNCHANGED <<order, store, nextId, now, ticks, nruns, commits>>
    /\ UNCHANGED_READS

ReadyToUpsert(r) == ing[r].pc = "fetch" /\ ing[r].k > Len(order)

Done == [IdleRun EXCEPT !.pc = "done"]

\* The history record of a commit: when, by which run, with which rows
Commit(r, rows, table) ==
    [run |-> r, time |-> now, rows |-> rows,
     changed |-> {a \in assets_of(rows) :
                    rows_of_asset(table, a) # rows_of_asset(store, a)}]

UpsertRowByRow(r) ==
    /\ ReadyToUpsert(r)
    /\ ing[r].prices # <<>>
    /\ store' = on_conflict_do_update(store, SubSeq(ing[r].prices, 1, 1), 1, nextId)
    /\ nextId' = nextId + 1
    /\ commits' = Append(commits, Commit(r, ing[r].prices, store'))
    /\ ing' = [ing EXCEPT ![r].prices = Tail(@),
                          ![r].pc = IF Len(ing[r].prices) = 1 THEN "done" ELSE @]
    /\ UNCHANGED <<order, now, ticks, nruns>>
    /\ UNCHANGED_READS

\* An upsert that also deletes the cache entries of the assets it wrote
UpsertInvalidating(r) ==
    /\ ReadyToUpsert(r)
    /\ ~has_duplicate_keys(ing[r].prices)
    /\ store' = on_conflict_do_update(store, ing[r].prices, 1, nextId)
    /\ nextId' = nextId + Len(ing[r].prices)
    /\ commits' = Append(commits, Commit(r, ing[r].prices, store'))
    /\ ing' = [ing EXCEPT ![r] = Done]
    /\ cache' = [key \in DOMAIN cache |->
                    IF \E a \in assets_of(ing[r].prices) : key = <<"prices:", a>>
                    THEN [cache[key] EXCEPT !.live = FALSE] ELSE cache[key]]
    /\ UNCHANGED <<order, now, ticks, nruns, rd, prev, fills, task>>

\* Lines 36-60: the rows of all clients in one statement, executed and
\* committed; a statement the store rejects raises and commits nothing.
Upsert(r) ==
    /\ ReadyToUpsert(r)
    /\ IF has_duplicate_keys(ing[r].prices)
       THEN /\ ing' = [ing EXCEPT ![r] =
                          Raised([type |-> "CardinalityViolation", arg |-> <<>>],
                                 ing[r].k, 0)]
            /\ UNCHANGED <<store, nextId, commits>>
       ELSE /\ store' = on_conflict_do_update(store, ing[r].prices, 1, nextId)
            /\ nextId' = nextId + Len(ing[r].prices)
            /\ commits' = Append(commits, Commit(r, ing[r].prices, store'))
            /\ ing' = [ing EXCEPT ![r] = Done]
    /\ UNCHANGED <<order, now, ticks, nruns>>
    /\ UNCHANGED_READS

----------------------------------------------------------------------------
(* Python values of the read handler *)

None == <<>>

Some(v) == <<v>>

\* Truthiness of an Optional[str] and of an Optional[int]: None, "" and 0
\* are false
truthy_str(x) == x # None /\ x[1] # ""

truthy_int(x) == x # None /\ x[1] # 0

\* i as a slice index of a list of length n
slice_index(i, n) ==
    IF i < 0 THEN (IF i + n < 0 THEN 0 ELSE i + n) ELSE (IF i > n THEN n ELSE i)

\* s[start:end], end an Optional[int]
py_slice(s, start, end) ==
    LET lo == slice_index(start, Len(s))
        hi == IF end = None THEN Len(s) ELSE slice_index(end[1], Len(s))
    IN  IF lo >= hi THEN <<>> ELSE SubSeq(s, lo + 1, hi)

----------------------------------------------------------------------------
(* Encoding rows for the cache, and validating them for the response *)

\* The significant digits the repr of a float shows at most
FLOAT_REPR_DIGITS == 17

zeros(n) == [i \in 1 .. n |-> 0]

RECURSIVE increment(_)
increment(digits) ==
    IF digits = <<>> THEN <<1>>
    ELSE IF digits[Len(digits)] < 9
         THEN [digits EXCEPT ![Len(digits)] = @ + 1]
         ELSE Append(increment(SubSeq(digits, 1, Len(digits) - 1)), 0)

\* float(d), written as the decimal its repr shows: the digits beyond
\* FLOAT_REPR_DIGITS are rounded away (half to even).  The prices of this
\* model have at most 6 digits, which a float keeps, or 18.
float_of(d) ==
    IF Len(d.digits) <= FLOAT_REPR_DIGITS THEN d
    ELSE LET n == Len(d.digits)
             kept == SubSeq(d.digits, 1, FLOAT_REPR_DIGITS)
             rest == SubSeq(d.digits, FLOAT_REPR_DIGITS + 1, n)
             up == \/ rest[1] > 5
                   \/ /\ rest[1] = 5
                      /\ \/ \E i \in 2 .. Len(rest) : rest[i] # 0
                         \/ kept[FLOAT_REPR_DIGITS] % 2 = 1
         IN  normalize(SignedDec(d.sign, IF up THEN increment(kept) ELSE kept,
                                 d.exp + n - FLOAT_REPR_DIGITS))

\* fastapi.encoders.decimal_encoder: an int when the exponent is not
\* negative, a float otherwise
decimal_encoder(d) ==
    IF d.exp >= 0
    THEN [t |-> "int", d |-> SignedDec(d.sign, d.digits \o zeros(d.exp), 0)]
    ELSE [t |-> "float", d |-> float_of(d)]

\* BaseCryptoPrice.model_validate(row).model_dump(): the five fields of the
\* ORM row, the price as the column type returns it
model_dump(row) ==
    [asset |-> row.asset, quote |-> row.quote,
     price |-> [t |-> "Decimal", d |-> process_result_value(row.price)],
     source |-> row.source,
     fetched_at |-> [t |-> "datetime", at |-> row.fetched_at]]

jsonable_encoder(rows) ==
    [i \in DOMAIN rows |->
        [rows[i] EXCEPT !.price = decimal_encoder(rows[i].price.d),
                        !.fetched_at = [t |-> "str", at |-> rows[i].fetched_at.at]]]

\* JSON text, and the value json.loads reads from it
json_dumps(value) == [text |-> value]

json_loads(cached) == cached.text

\* The Decimal pydantic makes of a price: of an int Decimal(int), of a float
\* Decimal(str(float)), where str of an integral float ends in ".0"
validate_price(v) ==
    CASE v.t = "Decimal" -> v.d
      [] v.t = "int" -> v.d
      [] v.t = "float" ->
            IF v.d.exp >= 0
            THEN SignedDec(v.d.sign, v.d.digits \o zeros(v.d.exp + 1), -1)
            ELSE v.d

\* response_model=List[BaseCryptoPrice]: each row validated and written as
\* JSON, the price as str(Decimal), fetched_at in ISO-8601
serialize_response(result) ==
    [i \in DOMAIN result |->
        [asset |-> result[i].asset, quote |-> result[i].quote,
         price |-> validate_price(result[i].price),
         source |-> result[i].source, fetched_at |-> result[i].fetched_at.at]]

----------------------------------------------------------------------------
(* The cache *)

CACHE_TTL == 30

\* An absent key.  Of an entry the model also keeps when it was written
\* (written), by which write (fill) and after how many commits (seen).
NoEntry ==
    [live |-> FALSE, text |-> [text |-> <<>>], expires |-> 0, written |-> 0,
     fill |-> 0, seen |-> 0]

cache_key(asset_upper) == <<"prices:", asset_upper>>

\* cache.get: the text under the key, None when there is none or it expired
cache_get(key) ==
    IF cache[key].live /\ now < cache[key].expires THEN Some(cache[key].text) ELSE None

\* The length of the text json.dumps makes of a list of rows, from below:
\* the two brackets, and a character at least for each row
json_text_len(cached) == 2 + Len(json_loads(cached))

\* A test of the decoded list in place of the text: [] is falsy
truthy_rows(cached) == cached # None /\ Len(json_loads(cached[1])) > 0

\* Line 47, `if cached:`: None is falsy, and so is a text of length 0
truthy_cached(cached) == cached # None /\ json_text_len(cached[1]) > 0

----------------------------------------------------------------------------
(* The read handler: GET /prices/{asset} *)

filter_rows(rows, source, quote) ==
    LET by_source == IF truthy_str(source)
                     THEN SelectSeq(rows, LAMBDA r : r.source = source[1]) ELSE rows
    IN  IF truthy_str(quote)
        THEN SelectSeq(by_source, LAMBDA r : r.quote = quote[1]) ELSE by_source

paginate(rows, offset, limit) ==
    LET start == IF truthy_int(offset) THEN offset[1] ELSE 0
        end == IF truthy_int(limit) THEN Some(start + limit[1]) ELSE None
    IN  py_slice(rows, start, end)

not_found_detail(asset) ==
    <<"Crypto asset ", asset, " with the given parameters not found.">>

\* A handler without the check of lines 67-71
respond_without_404(asset, result) ==
    [status |-> 200, body |-> serialize_response(result), detail |-> <<>>]

\* Lines 67-73
respond(asset, result) ==
    IF result = <<>>
    THEN [status |-> 404, body |-> <<>>, detail |-> not_found_detail(asset)]
    ELSE [status |-> 200, body |-> serialize_response(result), detail |-> <<>>]

Handlers == {"h1", "h2"}

IdleRead ==
    [pc |-> "idle", asset |-> <<>>, source |-> None, quote |-> None,
     offset |-> None, limit |-> None, asset_upper |-> <<>>, cache_key |-> <<>>,
     path |-> "none", fill |-> 0,
     issued |-> 0, seen |-> 0, n |-> 0,
     rows |-> <<>>, filtered |-> <<>>, result |-> <<>>,
     response |-> [status |-> 0, body |-> <<>>, detail |-> <<>>]]

NoPrev == [IdleRead EXCEPT !.pc = "none"]

UNCHANGED_INGEST == UNCHANGED <<order, store, nextId, ing, nruns, commits, task>>

Request(h, asset, source, quote, offset, limit) ==
    [IdleRead EXCEPT !.pc = "get", !.asset = asset, !.source = source,
                     !.quote = quote, !.offset = offset, !.limit = limit,
                     !.issued = now, !.n = rd[h].n + 1]

\* A request arrives
ReadStart(h, asset, source, quote, offset, limit, most) ==
    /\ rd[h].pc \in {"idle", "done"}
    /\ rd[h].n < most
    /\ rd' = [rd EXCEPT ![h] = Request(h, asset, source, quote, offset, limit)]
    /\ prev' = NoPrev
    /\ UNCHANGED <<cache, fills, now, ticks>>
    /\ UNCHANGED_INGEST

\* The caller sends its request again, the symbol written as asset
Repeat(h, asset, most) ==
    /\ rd[h].pc = "done"
    /\ rd[h].n < most
    /\ upper(asset) = upper(rd[h].asset)
    /\ rd' = [rd EXCEPT ![h] = Request(h, asset, rd[h].source, rd[h].quote,
                                       rd[h].offset, rd[h].limit)]
    /\ prev' = rd[h]
    /\ UNCHANGED <<cache, fills, now, ticks>>
    /\ UNCHANGED_INGEST

\* Lines 57-73 on the rows of either path
Finished(r, rows) ==
    LET filtered == filter_rows(rows, r.source, r.quote)
        result == paginate(filtered, r.offset, r.limit)
    IN  [r EXCEPT !.pc = "done", !.rows = rows, !.filtered = filtered,
                  !.result = result, !.response = respond(r.asset, result)]

as_written(asset) == asset

\* Line 42
to_asset_upper(asset) == upper(asset)

\* A cache whose get starts the time to live of the entry anew
CacheGetSliding(h) ==
    /\ rd[h].pc = "get"
    /\ LET asset_upper == to_asset_upper(rd[h].asset)
           key == cache_key(asset_upper)
           cached == cache_get(key)
           r == [rd[h] EXCEPT !.asset_upper = asset_upper, !.cache_key = key]
       IN  IF truthy_cached(cached)
           THEN /\ rd' = [rd EXCEPT ![h] =
                             Finished([r EXCEPT !.path = "hit",
                                                !.fill = cache[key].fill,
                                                !.seen = cache[key].seen],
                                      json_loads(cached[1]))]
                /\ cache' = [cache EXCEPT ![key].expires = now + CACHE_TTL]
           ELSE /\ rd' = [rd EXCEPT ![h] = [r EXCEPT !.pc = "query", !.path = "miss"]]
                /\ UNCHANGED cache
    /\ UNCHANGED <<fills, now, ticks, prev>>
    /\ UNCHANGED_INGEST

\* Lines 42-49: cache.get, and on a hit the rest of the handler
CacheGet(h) ==
    /\ rd[h].pc = "get"
    /\ LET asset_upper == to_asset_upper(rd[h].asset)
           key == cache_key(asset_upper)
           cached == cache_get(key)
           r == [rd[h] EXCEPT !.asset_upper = asset_upper, !.cache_key = key]
       IN  IF truthy_cached(cached)
           THEN rd' = [rd EXCEPT ![h] =
                          Finished([r EXCEPT !.path = "hit",
                                             !.fill = cache[key].fill,
                                             !.seen = cache[key].seen],
                                   json_loads(cached[1]))]
           ELSE rd' = [rd EXCEPT ![h] = [r EXCEPT !.pc = "query", !.path = "miss"]]
    /\ UNCHANGED <<cache, fills, now, ticks, prev>>
    /\ UNCHANGED_INGEST

\* Lines 52-53: the store's rows of the asset, in stored order
DbQuery(h) ==
    /\ rd[h].pc = "query"
    /\ LET found == rows_of_asset(store, rd[h].asset_upper)
       IN  rd' = [rd EXCEPT ![h].pc = "setex",
                            ![h].rows = [i \in DOMAIN found |-> model_dump(found[i])],
                            ![h].seen = Len(commits)]
    /\ UNCHANGED <<cache, fills, now, ticks, prev>>
    /\ UNCHANGED_INGEST

\* A handler that caches the rows it returns
CacheSetexFiltered(h) ==
    /\ rd[h].pc = "setex"
    /\ fills' = fills + 1
    /\ rd' = [rd EXCEPT ![h] = Finished([rd[h] EXCEPT !.fill = fills + 1], rd[h].rows)]
    /\ cache' = [cache EXCEPT ![rd[h].cache_key] =
                    [live |-> TRUE, text |-> json_dumps(jsonable_encoder(rd'[h].result)),
                     expires |-> now + CACHE_TTL, written |-> now, fill |-> fills + 1,
                     seen |-> rd[h].seen]]
    /\ UNCHANGED <<now, ticks, prev>>
    /\ UNCHANGED_INGEST

\* Lines 54-55, and the rest of the handler
CacheSetex(h) ==
    /\ rd[h].pc = "setex"
    /\ fills' = fills + 1
    /\ cache' = [cache EXCEPT ![rd[h].cache_key] =
                    [live |-> TRUE, text |-> json_dumps(jsonable_encoder(rd[h].rows)),
                     expires |-> now + CACHE_TTL, written |-> now, fill |-> fills + 1,
                     seen |-> rd[h].seen]]
    /\ rd' = [rd EXCEPT ![h] = Finished([rd[h] EXCEPT !.fill = fills + 1], rd[h].rows)]
    /\ UNCHANGED <<now, ticks, prev>>
    /\ UNCHANGED_INGEST

----------------------------------------------------------------------------
(* The worker's task: ingest_prices_task, retried when it raises *)

MAX_RETRIES == 5

MaxInvocations == 2     \* invocations of the task in one behaviour

NoTask == [pc |-> "idle", args |-> <<>>, retries |-> 0, attempts |-> 0, n |-> 0]

\* The task is sent to the queue
Schedule(assets) ==
    /\ task.pc \in {"idle", "succeeded", "failed"}
    /\ task.n < MaxInvocations
    /\ task' = [pc |-> "queued", args |-> assets, retries |-> 0, attempts |-> 0,
                n |-> task.n + 1]
    /\ UNCHANGED <<order, store, nextId, cache, now, ticks, ing, nruns, commits,
                   rd, prev, fills>>

\* A worker takes the task from the queue and calls ingest_prices
RunTask(r, p) ==
    /\ task.pc = "queued"
    /\ ing[r].pc \in {"idle", "done", "raised"}
    /\ task' = [task EXCEPT !.pc = "running", !.attempts = @ + 1]
    /\ ing' = [ing EXCEPT ![r] = [IdleRun EXCEPT !.pc = "fetch", !.assets = task.args,
                                                 !.quoted = p, !.k = 1]]
    /\ UNCHANGED <<order, store, nextId, cache, now, ticks, nruns, commits,
                   rd, prev, fills>>

\* ingest_prices has returned
TaskSucceeds(r) ==
    /\ task.pc = "running"
    /\ ing[r].pc = "done"
    /\ task' = [task EXCEPT !.pc = "succeeded"]
    /\ UNCHANGED <<order, store, nextId, cache, now, ticks, ing, nruns, commits,
                   rd, prev, fills>>

TaskRaisesOnceMore(r) ==
    /\ task.pc = "running"
    /\ ing[r].pc = "raised"
    /\ task' = IF task.retries <= MAX_RETRIES
               THEN [task EXCEPT !.pc = "queued", !.retries = @ + 1]
               ELSE [task EXCEPT !.pc = "failed"]
    /\ UNCHANGED <<order, store, nextId, cache, now, ticks, ing, nruns, commits,
                   rd, prev, fills>>

\* ingest_prices has raised: autoretry_for sends the task to the queue again
\* unless it has been retried max_retries times
TaskRaises(r) ==
    /\ task.pc = "running"
    /\ ing[r].pc = "raised"
    /\ task' = IF task.retries < MAX_RETRIES
               THEN [task EXCEPT !.pc = "queued", !.retries = @ + 1]
               ELSE [task EXCEPT !.pc = "failed"]
    /\ UNCHANGED <<order, store, nextId, cache, now, ticks, ing, nruns, commits,
                   rd, prev, fills>>

----------------------------------------------------------------------------
(* The clock: entries whose time to live is over are gone *)

Tick(d, latest) ==
    /\ ticks < MaxTicks
    /\ now + d <= latest
    /\ ticks' = ticks + 1
    /\ now' = now + d
    /\ cache' = [k \in DOMAIN cache |->
                    IF cache[k].live /\ cache[k].expires <= now + d
                    THEN NoEntry ELSE cache[k]]
    /\ UNCHANGED <<order, store, nextId, ing, nruns, commits, rd, prev, fills, task>>

----------------------------------------------------------------------------
(* Initial states *)

\* The symbols callers ask for
ReadAssets ==
    {btc, <<"B", "t", "c">>, <<"f", "b", "r">>, <<"F", "b", "R">>, <<"a", "s", "d">>}

CacheKeys == {cache_key(a) : a \in ReadAssets} \cup {cache_key(upper(a)) : a \in ReadAssets}

InitCommon ==
    /\ nextId = Len(store) + 1
    /\ cache = [k \in CacheKeys |-> NoEntry]
    /\ now = 0
    /\ ticks = 0
    /\ ing = [r \in Runs |-> IdleRun]
    /\ nruns = 0
    /\ commits = <<>>
    /\ rd = [h \in Handlers |-> IdleRead]
    /\ prev = NoPrev
    /\ fills = 0
    /\ task = NoTask

----------------------------------------------------------------------------
(* Ingestion alone: one task after the other, every answer of the sources *)

InitIngest == order \in ClientOrders /\ store = <<>> /\ InitCommon

NextIngest ==
    \/ \E assets \in AssetLists, p \in Feed : StartIngest("r1", assets, p)
    \/ \E beh \in Behaviours : CallCoinGecko("r1", beh)
    \/ \E beh \in Behaviours : CallBinance("r1", beh)
    \/ \E beh \in Behaviours : CallCoinbase("r1", beh)
    \/ Upsert("r1")
    \/ Tick(1, MaxIngestClock)

SpecIngest == InitIngest /\ [][NextIngest]_vars

----------------------------------------------------------------------------
(* Ingestion from sources that answer with any number: the clients put the *)
(* number of the response into the quote as it is                          *)

\* 120 and 130.30, and also 0 and -5
AnyFeed == Feed \cup {Dec(<<0>>, 0), SignedDec(1, <<5>>, 0)}

NextAnyFeed ==
    \/ \E assets \in {<<btc>>, <<btc, eth>>}, p \in AnyFeed : StartIngest("r1", assets, p)
    \/ CallCoinGecko("r1", "full")
    \/ CallBinance("r1", "full")
    \/ CallCoinbase("r1", "full")
    \/ Upsert("r1")

SpecAnyFeed == InitIngest /\ [][NextAnyFeed]_vars

----------------------------------------------------------------------------
(* The read path alone: one caller who sends a request and repeats it,     *)
(* against a store that does not change                                    *)

\* 0.123456789012345678
FinePrice == Dec(<<1, 2, 3, 4, 5, 6, 7, 8, 9, 0, 1, 2, 3, 4, 5, 6, 7, 8>>, -18)

\* The store after ingest_prices(["btc", "eth"]) into an empty table, the
\* sources quoting 120, 130.30 and FinePrice
IngestedStore ==
    on_conflict_do_update(<<>>,
        CoinGeckoClient_get_prices(<<btc, eth>>, "full", Dec(<<1, 2, 0>>, 0), 0).value
        \o <<CoinbaseClient_get_price(btc, "full", Dec(<<1, 3, 0, 3, 0>>, -2), 0).value,
             CoinbaseClient_get_price(eth, "full", Dec(<<1, 3, 0, 3, 0>>, -2), 0).value>>
        \o BinanceClient_get_prices(<<btc, eth>>, "full", FinePrice, 0).value,
        1, 1)

\* The two rows the API tests put into the table
FixtureStore ==
    << [id |-> 1, asset |-> <<"F", "B", "R">>, quote |-> "USD",
        price |-> Dec(<<1, 2, 3, 1, 2, 3>>, -3), source |-> "barbaz_source",
        fetched_at |-> 0],
       [id |-> 2, asset |-> <<"F", "B", "R">>, quote |-> "EUR",
        price |-> Dec(<<1, 2, 3, 4, 5, 6>>, -3), source |-> "foobar_source",
        fetched_at |-> 0] >>

ReadStores == {<<>>, IngestedStore, FixtureStore}

ReadSources == {None, Some(""), Some("coingecko"), Some("barbaz_source")}

ReadQuotes == {None, Some(""), Some("USD"), Some("EUR")}

ReadOffsets == {None, Some(0), Some(1), Some(2)}

ReadLimits == {None, Some(0), Some(1), Some(-1)}

\* Requests the caller of the read path sends
MaxRequests == 3

InitRead ==
    /\ order = <<"coingecko", "coinbase", "binance">>
    /\ store \in ReadStores
    /\ InitCommon

NextRead ==
    \/ \E a \in ReadAssets, s \in ReadSources, q \in ReadQuotes,
          o \in ReadOffsets, l \in ReadLimits :
          rd["h1"].pc = "idle" /\ ReadStart("h1", a, s, q, o, l, MaxRequests)
    \/ \E a \in ReadAssets : Repeat("h1", a, MaxRequests)
    \/ CacheGet("h1")
    \/ DbQuery("h1")
    \/ CacheSetex("h1")
    \/ Tick(CACHE_TTL, CACHE_TTL)

SpecRead == InitRead /\ [][NextRead]_vars

----------------------------------------------------------------------------
(* The system: ingest tasks and read handlers side by side, on the clock   *)

MaxReads == 2       \* requests one handler serves
ShortDelay == 2     \* seconds of the clock's short step

InitSystem ==
    /\ order = <<"coingecko", "coinbase", "binance">>
    /\ store = <<>>
    /\ InitCommon

Next ==
    \/ \E p \in Feed : StartIngest("r1", <<btc>>, p)
    \/ \E beh \in {"full", "error"} : CallCoinGecko("r1", beh)
    \/ \E beh \in {"full", "error"} : CallBinance("r1", beh)
    \/ \E beh \in {"full", "error"} : CallCoinbase("r1", beh)
    \/ Upsert("r1")
    \/ ReadStart("h1", btc, None, None, None, None, MaxReads)
    \/ CacheGet("h1")
    \/ DbQuery("h1")
    \/ CacheSetex("h1")
    \/ \E d \in {ShortDelay, CACHE_TTL - 1} : Tick(d, CACHE_TTL + ShortDelay)

Spec == InitSystem /\ [][Next]_vars

----------------------------------------------------------------------------
(* Two ingest tasks that overlap, and a read handler beside them.  The      *)
(* second task starts only while the first one runs.                        *)

NextOverlap ==
    \/ \E p \in Feed : StartIngest("r1", <<btc, eth>>, p)
    \/ \E p \in Feed : ing["r1"].pc = "fetch" /\ StartIngest("r2", <<btc>>, p)
    \/ \E r \in Runs, beh \in {"full", "error"} : CallCoinGecko(r, beh)
    \/ \E r \in Runs, beh \in {"full", "error"} : CallBinance(r, beh)
    \/ \E r \in Runs, beh \in {"full", "error"} : CallCoinbase(r, beh)
    \/ \E r \in Runs : Upsert(r)
    \/ ReadStart("h1", btc, None, None, None, None, MaxReads)
    \/ CacheGet("h1")
    \/ DbQuery("h1")
    \/ CacheSetex("h1")

SpecOverlap == InitSystem /\ [][NextOverlap]_vars

----------------------------------------------------------------------------
(* Two ingest tasks that overlap, on the clock: each client stamps its      *)
(* quotes with the time of its call, the commit comes when the loop is over *)

NextRace ==
    \/ \E p \in Feed : StartIngest("r1", <<btc>>, p)
    \/ \E p \in Feed : ing["r1"].pc = "fetch" /\ StartIngest("r2", <<btc>>, p)
    \/ \E r \in Runs : CallCoinGecko(r, "full")
    \/ \E r \in Runs : CallBinance(r, "full")
    \/ \E r \in Runs : CallCoinbase(r, "full")
    \/ \E r \in Runs : Upsert(r)
    \/ Tick(1, MaxIngestClock)

SpecRace == InitIngest /\ [][NextRace]_vars

----------------------------------------------------------------------------
(* Two read handlers at work at once beside an ingest task: a handler's     *)
(* cache.get, its query and its cache.setex are three steps, and the        *)
(* commit may fall between any two of them                                  *)

NextReaders ==
    \/ \E p \in Feed : StartIngest("r1", <<btc>>, p)
    \/ CallCoinGecko("r1", "full")
    \/ CallBinance("r1", "full")
    \/ CallCoinbase("r1", "full")
    \/ Upsert("r1")
    \/ \E h \in Handlers : ReadStart(h, btc, None, None, None, None, MaxReads)
    \/ \E h \in Handlers : CacheGet(h)
    \/ \E h \in Handlers : DbQuery(h)
    \/ \E h \in Handlers : CacheSetex(h)

SpecReaders == InitSystem /\ [][NextReaders]_vars

----------------------------------------------------------------------------
(* The cache on the clock: one caller, a store that does not change, and    *)
(* the clock advancing by a short or a long step                            *)

InitExpiry ==
    /\ order = <<"coingecko", "coinbase", "binance">>
    /\ store \in {<<>>, IngestedStore}
    /\ InitCommon

NextExpiry ==
    \/ \E a \in ReadAssets : ReadStart("h1", a, None, None, None, None, MaxReads)
    \/ CacheGet("h1")
    \/ DbQuery("h1")
    \/ CacheSetex("h1")
    \/ \E d \in {ShortDelay, CACHE_TTL - ShortDelay} : Tick(d, CACHE_TTL + ShortDelay)

SpecExpiry == InitExpiry /\ [][NextExpiry]_vars

----------------------------------------------------------------------------
(* The worker: the task as the beat schedule sends it, and as a caller      *)
(* sends it with symbols in lower case                                      *)

TaskArgs == {<<BTC, ETH>>, <<btc>>}

NextTask ==
    \/ \E assets \in TaskArgs : Schedule(assets)
    \/ \E p \in Feed : RunTask("r1", p)
    \/ \E beh \in {"full", "error"} : CallCoinGecko("r1", beh)
    \/ \E beh \in {"full", "error"} : CallBinance("r1", beh)
    \/ \E beh \in {"full", "error"} : CallCoinbase("r1", beh)
    \/ Upsert("r1")
    \/ TaskSucceeds("r1")
    \/ TaskRaises("r1")

SpecTask == InitSystem /\ [][NextTask]_vars

\* A worker that is up executes the task and its retries
FairSpecTask == SpecTask /\ WF_vars(NextTask)

----------------------------------------------------------------------------
(* Properties of ingestion *)

same_number(a, b) == normalize(a) = normalize(b)

Last(seq) == seq[Len(seq)]

row_of(table, q) == CHOOSE k \in DOMAIN table : key_of(table[k]) = key_of(q)

\* C1: the store holds at most one row per (asset, quote, source), and after
\* a run has committed, the one row of every triple the run ingested carries
\* the price and the fetched_at of that run, whatever an earlier run wrote.
C1_OneRowPerTripleWithLatestQuote ==
    /\ \A i, j \in DOMAIN store : key_of(store[i]) = key_of(store[j]) => i = j
    /\ commits # <<>> =>
          \A n \in DOMAIN Last(commits).rows :
              LET q == Last(commits).rows[n]
              IN  /\ \E k \in DOMAIN store : key_of(store[k]) = key_of(q)
                  /\ same_number(store[row_of(store, q)].price, q.price)
                  /\ store[row_of(store, q)].fetched_at = q.fetched_at

\* Two runs committed the same triple at different prices and times, and the
\* store has one row of it, with the second run's quote
C1_Witness ==
    /\ Len(commits) = 2
    /\ \E m \in DOMAIN commits[1].rows, n \in DOMAIN commits[2].rows :
          LET q1 == commits[1].rows[m]
              q2 == commits[2].rows[n]
          IN  /\ key_of(q1) = key_of(q2)
              /\ ~same_number(q1.price, q2.price)
              /\ q1.fetched_at < q2.fetched_at
              /\ Cardinality({k \in DOMAIN store : key_of(store[k]) = key_of(q2)}) = 1
              /\ same_number(store[row_of(store, q2)].price, q2.price)

sources_of(rows) == {rows[i].source : i \in DOMAIN rows}

\* C2: a step in which a run raises leaves the store as it is and hands the
\* error to the caller, and the store changes only by the upsert of a run in
\* which every client of CLIENTS_TO_CALL has returned its quotes.
C2_FailedRunWritesNothing ==
    [][\A r \in Runs :
          /\ (ing[r].pc = "fetch" /\ ing'[r].pc = "raised") =>
                (store' = store /\ ing'[r].error.type # "none")
          /\ (ing[r].pc = "fetch" /\ ing'[r].pc = "done") =>
                sources_of(ing[r].prices) = CLIENTS_TO_CALL
          /\ (\A q \in Runs : ing'[q].pc # "done" \/ ing[q].pc = "done") =>
                store' = store]_vars

\* A run has raised at its second or third client, after a client succeeded,
\* and the store holds the rows of an earlier run
C2_Witness ==
    /\ ing["r1"].pc = "raised"
    /\ ing["r1"].k > 1
    /\ ing["r1"].error.type \in {"KeyError", "ValueError", "RuntimeError", "RequestException"}
    /\ Len(commits) = 1
    /\ store # <<>>

\* C3: the store changes only in the commit step of a run, and that step
\* leaves the store with all rows of the run written: no step writes some of
\* a run's rows and leaves others to a later step.
C3_UpsertIsOneStep ==
    [][store' # store =>
          \E r \in Runs :
              /\ ReadyToUpsert(r)
              /\ ing'[r].pc = "done"
              /\ store' = on_conflict_do_update(store, ing[r].prices, 1, nextId)
              /\ \A n \in DOMAIN ing[r].prices :
                    \E k \in DOMAIN store' :
                        /\ key_of(store'[k]) = key_of(ing[r].prices[n])
                        /\ store'[k].fetched_at = ing[r].prices[n].fetched_at]_vars

\* A run of three rows has committed while another run had fetched quotes
\* and not yet committed them, and while a read handler was between its
\* store query and its cache write
C3_Witness ==
    /\ ing["r1"].pc = "fetch"
    /\ ing["r1"].prices # <<>>
    /\ Len(commits) = 1
    /\ commits[1].run = "r2"
    /\ Len(commits[1].rows) = 3
    /\ Len(store) = 3
    /\ rd["h1"].pc = "setex"
    /\ rd["h1"].seen < Len(commits)

----------------------------------------------------------------------------
(* Properties of the read path *)

\* C4: a read served by a cache hit returns the response of the read before
\* it that missed the cache and wrote the entry the hit is served from, the
\* request being the same.
C4_HitEqualsMiss ==
    (/\ rd["h1"].pc = "done" /\ rd["h1"].path = "hit"
     /\ prev.pc = "done" /\ prev.path = "miss"
     /\ rd["h1"].fill = prev.fill
     /\ rd["h1"].asset = prev.asset)
    => rd["h1"].response = prev.response

\* C5: a read issued more than CACHE_TTL seconds after the commit of a run
\* that changed the rows of its asset returns rows read from the store after
\* that commit.
C5_StaleAtMostTTL ==
    \A h \in Handlers :
        rd[h].pc = "done" =>
            \A i \in DOMAIN commits :
                (/\ rd[h].asset_upper \in commits[i].changed
                 /\ rd[h].issued > commits[i].time + CACHE_TTL)
                => rd[h].seen >= i

\* The rows at positions offset <= i < offset + limit of a list, counted from
\* 0, limit None meaning no upper end
window(list, offset, limit) ==
    LET lo == IF offset = None THEN 0 ELSE offset[1]
    IN  [n \in 1 .. Cardinality({i \in 0 .. Len(list) - 1 :
                                   /\ lo <= i
                                   /\ limit # None => i < lo + limit[1]}) |->
            list[lo + n]]

\* C6: for an offset >= 0, a read returns the rows at positions offset <= i <
\* offset + limit of the filtered list, and not-found when there is none.
C6_PageIsWindow ==
    \A h \in Handlers :
        (rd[h].pc = "done" /\ (rd[h].offset = None \/ rd[h].offset[1] >= 0)) =>
            /\ rd[h].result = window(rd[h].filtered, rd[h].offset, rd[h].limit)
            /\ rd[h].result = <<>> => rd[h].response.status = 404

\* C7: a read with a limit L >= 0 returns at most L rows.
C7_AtMostLimitRows ==
    \A h \in Handlers :
        (rd[h].pc = "done" /\ rd[h].limit # None /\ rd[h].limit[1] >= 0) =>
            Len(rd[h].response.body) <= rd[h].limit[1]

\* C8: before pagination, the rows of a read are the rows of the asset whose
\* source is the supplied source and whose quote is the supplied quote, in
\* their order, on either path; when there is none the read is not-found.
C8_FiltersAreExact ==
    \A h \in Handlers :
        rd[h].pc = "done" =>
            /\ rd[h].filtered =
                  SelectSeq(rd[h].rows,
                            LAMBDA r : /\ rd[h].source # None => r.source = rd[h].source[1]
                                       /\ rd[h].quote # None => r.quote = rd[h].quote[1])
            /\ rd[h].filtered = <<>> => rd[h].response.status = 404

\* C9: a read answers 404, with the detail naming the asset as the caller
\* wrote it, exactly when no row is left after filtering and pagination, and
\* otherwise 200 with those rows: never 200 with an empty list.
C9_NotFoundIffEmpty ==
    \A h \in Handlers :
        rd[h].pc = "done" =>
            /\ rd[h].response.status \in {200, 404}
            /\ rd[h].response.status = 404 <=> rd[h].result = <<>>
            /\ rd[h].response.status = 404 =>
                  rd[h].response.detail =
                      <<"Crypto asset ", rd[h].asset, " with the given parameters not found.">>
            /\ rd[h].response.status = 200 =>
                  /\ rd[h].response.body # <<>>
                  /\ Len(rd[h].response.body) = Len(rd[h].result)

\* A symbol written in lower case is not found although the store has rows of
\* the asset: the filter matches none of them
C9_Witness ==
    /\ rd["h1"].pc = "done"
    /\ rd["h1"].asset = btc
    /\ rd["h1"].rows # <<>>
    /\ rd["h1"].filtered = <<>>
    /\ rd["h1"].response.status = 404

\* C10: two reads of one symbol in two casings, with the same filters and
\* both served from the store or both from the same cache entry, use the same
\* cache key and return the same rows with the same status.
C10_CaseInsensitive ==
    (/\ rd["h1"].pc = "done" /\ prev.pc = "done"
     /\ rd["h1"].asset # prev.asset
     /\ rd["h1"].path = prev.path
     /\ rd["h1"].path = "hit" => rd["h1"].fill = prev.fill)
    => /\ rd["h1"].cache_key = prev.cache_key
       /\ rd["h1"].response.status = prev.response.status
       /\ rd["h1"].response.body = prev.response.body

\* The same request in two casings was served twice from one cache entry
\* with rows
C10_Witness ==
    /\ rd["h1"].pc = "done" /\ prev.pc = "done"
    /\ rd["h1"].asset # prev.asset
    /\ rd["h1"].path = "hit" /\ prev.path = "hit"
    /\ rd["h1"].fill = prev.fill
    /\ rd["h1"].response.status = 200

----------------------------------------------------------------------------
(* Properties of one ingest run *)

keys_of(rows) == {key_of(rows[i]) : i \in DOMAIN rows}

\* C11: the commit of a run over ["btc", "eth"] leaves the store with exactly
\* 6 rows, one per (asset, "USD", source) of the two assets and the three
\* sources, each with the price and the fetched_at its source returned; the
\* number of rows is the number of distinct triples, rows that were there
\* before being overwritten.
C11_SixRowsForTwoAssets ==
    [][\A r \in Runs :
          (ing[r].pc = "fetch" /\ ing[r].assets = <<btc, eth>> /\ ing'[r].pc = "done") =>
              /\ Len(ing[r].prices) = 6
              /\ Len(store') = 6
              /\ Len(store') = Cardinality(keys_of(store) \cup keys_of(ing[r].prices))
              /\ \A a \in {BTC, ETH}, src \in CLIENTS_TO_CALL :
                    Cardinality({k \in DOMAIN store' :
                                   key_of(store'[k]) = <<a, "USD", src>>}) = 1
              /\ \A n \in DOMAIN ing[r].prices :
                    LET q == ing[r].prices[n]
                        row == store'[row_of(store', q)]
                    IN  /\ same_number(row.price, ing[r].quoted)
                        /\ row.fetched_at = q.fetched_at]_vars

\* A run over ["btc"] has committed 3 rows, a run over ["btc", "eth"] after it
\* has committed 6 at another price, and the store holds 6 rows
C11_Witness ==
    /\ Len(commits) = 2
    /\ Len(commits[1].rows) = 3
    /\ Len(commits[2].rows) = 6
    /\ ~same_number(commits[1].rows[1].price, commits[2].rows[1].price)
    /\ Len(store) = 6

\* An asset that is in the supported set of no client
unsupported(asset) == ~dict_has(COINGECKO_COIN_IDS, lower(asset))

\* C12: a client whose get_prices is called with a list that holds an
\* unsupported asset fails, having issued no network call, with an error
\* that names an unsupported asset of the list: every step of a client on
\* such a list is the step in which it raises so.
C12_UnsupportedAssetFailsBeforeAnyCall ==
    [][\A r \in Runs :
          (/\ ing[r].pc = "fetch"
           /\ ing[r].k \in DOMAIN order
           /\ \E i \in DOMAIN ing[r].assets : unsupported(ing[r].assets[i])
           /\ ing'[r] # ing[r]) =>
              /\ ing'[r].pc = "raised"
              /\ ing'[r].calls = 0
              /\ \E i \in DOMAIN ing[r].assets :
                    /\ unsupported(ing[r].assets[i])
                    /\ \E n \in DOMAIN ing'[r].error.arg :
                          lower(ing'[r].error.arg[n]) = lower(ing[r].assets[i])]_vars

\* C13: the quotes one get_prices invocation returned carry one fetched_at.
\* A run calls every client once, so the quotes of one source among the
\* quotes a run has collected are those of one invocation.
C13_OneTimestampPerInvocation ==
    \A r \in Runs :
        \A m, n \in DOMAIN ing[r].prices :
            ing[r].prices[m].source = ing[r].prices[n].source =>
                ing[r].prices[m].fetched_at = ing[r].prices[n].fetched_at

\* The behaviours in which a source answers the request
Answers == Behaviours \ {"error"}

\* A call that succeeded has one quote of the source for each distinct
\* requested asset, and a call whose response lacked a requested id (present
\* is false) failed and returned nothing
complete_or_failed(res, assets, source, present) ==
    /\ res.ok =>
          /\ present
          /\ Len(res.value) = Cardinality({upper(assets[i]) : i \in DOMAIN assets})
          /\ \A i \in DOMAIN assets :
                Cardinality({n \in DOMAIN res.value :
                               /\ res.value[n].asset = upper(assets[i])
                               /\ res.value[n].source = source}) = 1
    /\ ~present => (~res.ok /\ res.value = <<>>)

\* C14: whatever the source answers to a run that is at CoinGecko or at
\* Binance, get_prices succeeds only if the response holds every requested
\* id, then with exactly one quote per distinct requested asset, and fails
\* without quotes if the response lacks a requested id.
C14_CompleteResponseOrFailure ==
    \A r \in Runs, beh \in Answers :
        /\ AtClient(r, "coingecko") =>
              LET m == map_assets(ing[r].assets, COINGECKO_COIN_IDS)
                  response == coingecko_response(m.value.asset_ids, beh, ing[r].quoted)
              IN  m.ok =>
                    complete_or_failed(
                        CoinGeckoClient_get_prices(ing[r].assets, beh, ing[r].quoted, now),
                        ing[r].assets, "coingecko",
                        \A i \in DOMAIN m.value.asset_ids :
                            \E n \in DOMAIN response :
                                response[n][1] = m.value.asset_ids[i])
        /\ AtClient(r, "binance") =>
              LET m == map_assets(ing[r].assets, BINANCE_COIN_IDS)
                  response == binance_response(beh, ing[r].quoted)
              IN  m.ok =>
                    complete_or_failed(
                        BinanceClient_get_prices(ing[r].assets, beh, ing[r].quoted, now),
                        ing[r].assets, "binance",
                        \A i \in DOMAIN m.value.asset_ids :
                            \E n \in DOMAIN response :
                                response[n].symbol = <<m.value.asset_ids[i], "USDT">>)

\* A run over two assets has raised at its second or third client because
\* the response lacked the id of eth: the error names eth, and the quotes of
\* the clients before it are dropped
C14_Witness ==
    /\ ing["r1"].pc = "raised"
    /\ ing["r1"].k > 1
    /\ ing["r1"].error = [type |-> "RuntimeError", arg |-> <<eth>>]
    /\ ing["r1"].prices = <<>>

\* What a source answered: a quote without the time it was fetched at
answer_of(q) ==
    [asset |-> q.asset, quote |-> q.quote, source |-> q.source,
     price |-> normalize(q.price)]

answers_of(rows) == [n \in DOMAIN rows |-> answer_of(rows[n])]

\* The identity and the quote of a stored row: all but fetched_at
identity_of(row) ==
    [id |-> row.id, asset |-> row.asset, quote |-> row.quote, source |-> row.source,
     price |-> row.price]

identities_of(table) == {identity_of(table[k]) : k \in DOMAIN table}

\* C16: the commit of a run whose clients returned what they returned to the
\* run that committed before it leaves every row with its id, asset, quote,
\* source and price, and adds or removes no row.
C16_RetryIsIdempotent ==
    [][\A r \in Runs :
          (/\ ReadyToUpsert(r)
           /\ ing'[r].pc = "done"
           /\ commits # <<>>
           /\ answers_of(ing[r].prices) = answers_of(Last(commits).rows)) =>
              /\ identities_of(store') = identities_of(store)
              /\ Len(store') = Len(store)]_vars

\* Two runs have committed the same answers at different times: the rows
\* carry the time of the second run and the ids of the first
C16_Witness ==
    /\ Len(commits) = 2
    /\ answers_of(commits[1].rows) = answers_of(commits[2].rows)
    /\ Len(commits[2].rows) = 6
    /\ \A k \in DOMAIN store : store[k].id = k
    /\ \E k \in DOMAIN store : store[k].fetched_at > commits[1].time
    /\ nextId = 13

\* C17: in every step every row of the store stays, at its place and with
\* its id, asset, quote and source; a row changes only in the commit of a
\* run that ingested its triple, and a row is new only in the commit of a
\* run that ingested its triple, which no row had before.
C17_RunChangesOnlyItsTriples ==
    [][/\ Len(store') >= Len(store)
       /\ \A k \in DOMAIN store :
             /\ store'[k].id = store[k].id
             /\ key_of(store'[k]) = key_of(store[k])
             /\ store'[k] # store[k] =>
                   \E r \in Runs :
                       /\ ReadyToUpsert(r) /\ ing'[r].pc = "done"
                       /\ key_of(store[k]) \in keys_of(ing[r].prices)
       /\ \A k \in DOMAIN store' \ DOMAIN store :
             /\ key_of(store'[k]) \notin keys_of(store)
             /\ \E r \in Runs :
                   /\ ReadyToUpsert(r) /\ ing'[r].pc = "done"
                   /\ key_of(store'[k]) \in keys_of(ing[r].prices)
       /\ keys_of(store) \subseteq keys_of(store')]_vars

\* A run over two assets has committed 6 rows and a later run over one of
\* them 3 rows at another price: the rows of the other asset are as the first
\* run wrote them
C17_Witness ==
    /\ Len(commits) = 2
    /\ Len(commits[1].rows) = 6
    /\ Len(commits[2].rows) = 3
    /\ commits[1].time < commits[2].time
    /\ ~same_number(commits[1].rows[1].price, commits[2].rows[1].price)
    /\ Len(store) = 6
    /\ \E k \in DOMAIN store :
          /\ store[k].asset = ETH
          /\ store[k].fetched_at = commits[1].time
          /\ same_number(store[k].price, commits[1].rows[1].price)

\* The symbols of a list that have no entry in a table
unmapped(assets, id_mapping) ==
    SelectSeq(assets, LAMBDA a : ~dict_has(id_mapping, lower(a)))

\* C21: for the list of a run that is at a client which maps its assets, the
\* mapper returns normally with invalid_assets the symbols of the list that
\* have no entry in the client's table, and the client fails with
\* ValueError exactly when there is one.
C21_MapperRecordsInvalidAssets ==
    \A r \in Runs :
        /\ AtClient(r, "coingecko") =>
              LET m == map_assets(ing[r].assets, COINGECKO_COIN_IDS)
                  res == CoinGeckoClient_get_prices(ing[r].assets, "full", ing[r].quoted, now)
              IN  /\ m.ok
                  /\ m.value.invalid_assets = unmapped(ing[r].assets, COINGECKO_COIN_IDS)
                  /\ m.value.invalid_assets # <<>> =>
                        (~res.ok /\ res.error.type = "ValueError")
        /\ AtClient(r, "binance") =>
              LET m == map_assets(ing[r].assets, BINANCE_COIN_IDS)
                  res == BinanceClient_get_prices(ing[r].assets, "full", ing[r].quoted, now)
              IN  /\ m.ok
                  /\ m.value.invalid_assets = unmapped(ing[r].assets, BINANCE_COIN_IDS)
                  /\ m.value.invalid_assets # <<>> =>
                        (~res.ok /\ res.error.type = "ValueError")

\* A quote or row in the form the read path looks for: an upper-case symbol
\* of a requested asset, quoted in USD, under the name of its client
canonical(q, client, assets) ==
    /\ q.asset = upper(q.asset)
    /\ \E i \in DOMAIN assets : q.asset = upper(assets[i])
    /\ q.quote = "USD"
    /\ q.source = client

all_canonical(quotes, client, assets) ==
    \A i \in DOMAIN quotes : canonical(quotes[i], client, assets)

\* The quotes a run holds: those of the clients that returned and those of
\* the Coinbase comprehension under way
held(r) == ing[r].prices \o ing[r].partial

\* C22: the quotes a step of a client adds to a run, whatever the casing of
\* the run's list, have an upper-case symbol of a requested asset, quote
\* "USD" and the name of that client as source; every row a step writes or
\* rewrites in the store has an upper-case symbol, quote "USD" and a client's
\* name, and is a row the lookup by the upper-cased symbol selects.
C22_QuotesAreCanonical ==
    [][/\ \A r \in Runs :
            Len(held(r)') > Len(held(r)) =>
                all_canonical(SubSeq(held(r)', Len(held(r)) + 1, Len(held(r)')),
                              order[ing[r].k], ing[r].assets)
       /\ \A i \in DOMAIN store' :
            (i \notin DOMAIN store \/ store'[i] # store[i]) =>
                /\ store'[i].asset = upper(store'[i].asset)
                /\ store'[i].quote = "USD"
                /\ store'[i].source \in CLIENTS_TO_CALL
                /\ \E j \in DOMAIN rows_of_asset(store', to_asset_upper(lower(store'[i].asset))) :
                      rows_of_asset(store', to_asset_upper(lower(store'[i].asset)))[j]
                          = store'[i]
      ]_vars

\* A run over the lower-case list has written its six rows and a later run
\* over <<btc>> has gathered one quote of each client.
C22_Witness ==
    /\ Len(store) = 6
    /\ ReadyToUpsert("r1")
    /\ ing["r1"].assets = <<btc>>
    /\ {ing["r1"].prices[i].source : i \in DOMAIN ing["r1"].prices} = CLIENTS_TO_CALL

\* d >= 0: the sign is plus, or the number is (minus) zero
non_negative(d) == d.sign = 0 \/ \A i \in DOMAIN d.digits : d.digits[i] = 0

\* C23: whatever numbers the sources answer with, the price of every quote
\* a run holds and of every row of the store is not negative.
C23_PricesAreNonNegative ==
    /\ \A r \in Runs : \A i \in DOMAIN held(r) : non_negative(held(r)[i].price)
    /\ \A i \in DOMAIN store : non_negative(store[i].price)

\* C25: whichever way two runs interleave, no step lowers the fetched_at of
\* a row of the store: a row that holds the quote fetched later is not
\* replaced by the commit of a run that fetched earlier.
C25_FetchedAtNeverDecreases ==
    [][\A i \in DOMAIN store : \A j \in DOMAIN store' :
          key_of(store'[j]) = key_of(store[i]) =>
              store'[j].fetched_at >= store[i].fetched_at]_vars

\* C27: the quotes a run hands to its upsert, all clients having returned,
\* hold at most one quote per (asset, quote, source), whatever the list.
C27_OneQuotePerTriple ==
    \A r \in Runs : ReadyToUpsert(r) => ~has_duplicate_keys(ing[r].prices)

----------------------------------------------------------------------------
(* Properties of the cache *)

\* C18: a step of an ingest run, be it a fetch, a raise or the commit,
\* leaves every cache entry as it is, and a step of a read handler leaves
\* the store as it is.
C18_IngestLeavesCacheReadLeavesStore ==
    [][/\ ing' # ing => (cache' = cache /\ fills' = fills)
       /\ rd' # rd => (store' = store /\ nextId' = nextId /\ commits' = commits)]_vars

\* A read has filled the entry of BTC from the empty store, one run has
\* raised and another has committed since, and a read after the commit was
\* served from that entry
C18_Witness ==
    /\ ing["r1"].pc = "raised"
    /\ ing["r2"].pc = "done"
    /\ Len(commits) = 1
    /\ store # <<>>
    /\ cache[cache_key(BTC)].live
    /\ cache[cache_key(BTC)].seen = 0
    /\ rd["h1"].pc = "done"
    /\ rd["h1"].path = "hit"
    /\ rd["h1"].n = 2

\* What a miss caches of a table for an asset: all its rows, encoded
cached_rows_of(table, asset) ==
    LET found == rows_of_asset(table, asset)
    IN  json_dumps(jsonable_encoder([i \in DOMAIN found |-> model_dump(found[i])]))

\* C19: every entry of the cache is under the key of an upper-case symbol
\* and holds all rows of the store for that asset, whatever source, quote,
\* offset and limit the request had that wrote it (the store does not change
\* here, so the rows at the query are the rows of the store).
C19_EntryIsFullRowSet ==
    \A key \in DOMAIN cache :
        cache[key].live =>
            /\ key[1] = "prices:"
            /\ key[2] = upper(key[2])
            /\ cache[key].text = cached_rows_of(store, key[2])

\* A request with a source filter and a limit missed the cache and returned
\* one row; the entry it wrote holds both rows of the asset
C19_Witness ==
    /\ rd["h1"].pc = "done"
    /\ rd["h1"].path = "miss"
    /\ rd["h1"].source = Some("barbaz_source")
    /\ rd["h1"].limit = Some(1)
    /\ Len(rd["h1"].result) = 1
    /\ cache[rd["h1"].cache_key].live
    /\ Len(json_loads(cache[rd["h1"].cache_key].text)) = 2

\* C20: an entry is written only by the cache write of a handler that missed,
\* to live CACHE_TTL seconds from then; no other step changes an entry but
\* the clock taking it away, so a hit leaves text and expiry as they are; and
\* every entry there is was written less than CACHE_TTL seconds ago.
C20_TTLIsFixed ==
    [][/\ \A key \in DOMAIN cache :
             cache'[key] # cache[key] =>
                 \/ /\ \E h \in Handlers :
                           /\ rd[h].pc = "setex" /\ rd[h].path = "miss"
                           /\ rd[h].cache_key = key /\ rd'[h].pc = "done"
                    /\ cache'[key].live
                    /\ cache'[key].written = now
                    /\ cache'[key].expires = now + CACHE_TTL
                 \/ /\ now' > now
                    /\ cache[key].live /\ cache[key].expires <= now'
                    /\ ~cache'[key].live
       /\ \A key \in DOMAIN cache :
             cache'[key].live =>
                 /\ cache'[key].expires = cache'[key].written + CACHE_TTL
                 /\ now' < cache'[key].written + CACHE_TTL
       /\ \A h \in Handlers :
             (rd[h].pc = "get" /\ rd'[h].path = "hit") => cache' = cache]_vars

\* An entry written at time 0 was hit after the short step of the clock, and
\* when the clock shows CACHE_TTL the entry is gone
C20_Witness ==
    /\ now = CACHE_TTL
    /\ fills = 1
    /\ rd["h1"].pc = "done"
    /\ rd["h1"].path = "hit"
    /\ rd["h1"].issued = ShortDelay
    /\ rd["h1"].response.status = 200
    /\ ~cache[rd["h1"].cache_key].live

\* C26: no cache write regresses an entry: a live entry whose rows were
\* queried after some commit is not replaced by rows that were queried
\* before that commit and differ from it.
C26_EntryNeverRegresses ==
    [][\A k \in CacheKeys :
          (cache[k].live /\ cache'[k].live /\ cache'[k].seen < cache[k].seen) =>
              cache'[k].text = cache[k].text]_vars

\* C28: a handler that missed leaves a live entry holding the rows it
\* queried, the empty list too, until the CACHE_TTL seconds are over; and
\* while an entry is live no handler is on the miss branch: a read that
\* finds the entry is answered from it, not from the store, whether it
\* answers rows or not-found.
C28_MissLeavesEntryThatHits ==
    \A h \in Handlers :
        /\ rd[h].pc \in {"query", "setex"} => ~cache[rd[h].cache_key].live
        /\ (rd[h].pc = "done" /\ rd[h].path = "miss") =>
              \/ /\ cache[rd[h].cache_key].live
                 /\ cache[rd[h].cache_key].fill = rd[h].fill
                 /\ json_loads(cache[rd[h].cache_key].text) = jsonable_encoder(rd[h].rows)
                 /\ now < cache[rd[h].cache_key].written + CACHE_TTL
              \/ /\ ~cache[rd[h].cache_key].live
                 /\ now >= rd[h].issued + CACHE_TTL
        /\ (rd[h].pc = "done" /\ rd[h].path = "hit") =>
              /\ rd[h].response.status = IF rd[h].rows = <<>> THEN 404 ELSE 200
              /\ (cache[rd[h].cache_key].live /\ cache[rd[h].cache_key].fill = rd[h].fill) =>
                    /\ rd[h].rows = json_loads(cache[rd[h].cache_key].text)
                    /\ rd[h].issued < cache[rd[h].cache_key].written + CACHE_TTL

\* The second read of an asset without rows, a short while after the first,
\* was answered not-found from the cached empty list
C28_Witness ==
    /\ rd["h1"].pc = "done"
    /\ rd["h1"].path = "hit"
    /\ rd["h1"].n = 2
    /\ rd["h1"].issued = ShortDelay
    /\ rd["h1"].rows = <<>>
    /\ rd["h1"].response.status = 404
    /\ fills = 1
    /\ cache[rd["h1"].cache_key].live

----------------------------------------------------------------------------
(* Properties of the worker's task *)

\* C15: an invocation of the task makes at most MAX_RETRIES + 1 attempts, an
\* attempt after the first one follows an attempt that raised, an invocation
\* that succeeded makes no further attempt, one that gave up has made all
\* its attempts, and every invocation comes to an end.
C15_RetriedOnlyAfterRaiseAtMostFiveTimes ==
    /\ [][/\ task'.attempts <= MAX_RETRIES + 1
          /\ task'.retries <= MAX_RETRIES
          /\ (task'.n = task.n /\ task'.attempts > task.attempts /\ task.attempts > 0) =>
                (ing["r1"].pc = "raised" /\ task'.attempts = task.retries + 1)
          /\ (task.pc = "succeeded" /\ task'.n = task.n) => task' = task
          /\ task'.pc = "failed" => task'.attempts = MAX_RETRIES + 1]_vars
    /\ (task.pc = "queued") ~> (task.pc \in {"succeeded", "failed"})

\* The task has given up after its sixth attempt raised, in its second
\* invocation, the first one having succeeded
C15_Witness ==
    /\ task.pc = "failed"
    /\ task.attempts = MAX_RETRIES + 1
    /\ task.n = 2
    /\ store # <<>>

\* The store holds one row per (asset, USD, source) for the assets
one_row_per_source(table, assets) ==
    \A i \in DOMAIN assets : \A c \in CLIENTS_TO_CALL :
        Cardinality({k \in DOMAIN table :
                        key_of(table[k]) = <<upper(assets[i]), "USD", c>>}) = 1

\* C24: an invocation with the scheduler's list <<BTC, ETH>> leads to a run
\* that a source failed to answer, or to the task succeeding with one row
\* per (asset, USD, source) in the store: no client rejects the list.
C24_ScheduledRunCommits ==
    (task.pc = "queued" /\ task.args = <<BTC, ETH>> /\ task.retries = 0)
        ~> \/ ing["r1"].pc = "raised" /\ ing["r1"].error.type = "RequestException"
           \/ task.pc = "succeeded" /\ one_row_per_source(store, <<BTC, ETH>>)

====
